---- MODULE Spec2Model ----
(***************************************************************************)
(* Scroll spy of script.js: smooth scrolling on nav-link and logo clicks,  *)
(* and highlighting of the active nav link from IntersectionObserver       *)
(* notifications.  The page (sections, nav links, logo) is a static        *)
(* snapshot chosen in Init; attribute values are sequences of character    *)
(* tokens so that selector construction and selector parsing are modelled  *)
(* by what they do.                                                        *)
(***************************************************************************)
EXTENDS Naturals, Sequences, FiniteSets

VARIABLES
    sections,          \* document.querySelectorAll("section"): id attribute of each
    navLinks,          \* document.querySelectorAll(".nav-link"): href and data-target of each
    logo,              \* document.querySelector(".logo"): the element, or NullEl
    active,            \* indices of the nav links whose classList holds "active"
    inBand,            \* sections intersecting the observer's root rectangle
    notified,          \* the observer callback has run at least once
    event,             \* the last handler that ran
    scrolls,           \* scrollIntoView requests issued by the last handler
    defaultPrevented,  \* the last handler called e.preventDefault()
    error,             \* exception thrown by the last handler (or by the script itself)
    rect               \* bounding rectangle of one observed section, with the observer's verdict

vars == <<sections, navLinks, logo, active, inBand, notified, event, scrolls,
          defaultPrevented, error, rect>>

page == <<sections, navLinks, logo>>

(* Bounds of the model *)
MaxLinks == 2
MaxSections == 2
MaxBatch == 2

(***************************************************************************)
(* JavaScript values: null, or a string (a sequence of character tokens).  *)
(***************************************************************************)
Null == [t |-> "null", s |-> <<>>]

Str(toks) == [t |-> "str", s |-> toks]

\* String(v), as applied by querySelector(v) and by `${v}` in a template literal
ToString(v) == IF v.t = "null" THEN <<"null">> ELSE v.s

\* Tokens that may occur inside a CSS identifier
IdentTokens == {"home", "about", "null", "a", "b", "section", "nav-link", "data-target"}

\* An identifier that needs escaping in a selector: a"b
QuoteId == <<"a", "\"", "b">>

SectionIdValues == {Null, Str(<<"home">>), Str(<<"about">>), Str(QuoteId)}

\* href and data-target of a nav link
LinkShapes ==
    { [href |-> Str(<<"#", "home">>),  target |-> Str(<<"home">>)],
      [href |-> Str(<<"#", "about">>), target |-> Str(<<"about">>)],
      [href |-> Str(<<"#", "home">>),  target |-> Str(<<"about">>)],
      [href |-> Null,                  target |-> Null],
      [href |-> Str(<<>>),             target |-> Str(<<"null">>)],
      [href |-> Str(<<"#">> \o QuoteId), target |-> Str(QuoteId)] }

\* The logo: absent, or an element with its own href
NullEl == [type |-> "null", idx |-> 0]

LogoValues == {NullEl} \cup
    { [type |-> "logo", idx |-> 0, href |-> h] : h \in {Null, Str(<<"#", "about">>)} }

SeqsUpTo(S, n) == UNION { [1..k -> S] : k \in 0..n }

\* ids that are present are unique in the document
UniqueIds(secs) ==
    \A i, j \in DOMAIN secs : (i # j /\ secs[i] # Null) => secs[i] # secs[j]

(***************************************************************************)
(* Selectors.  A selector string is parsed before it is matched; a string  *)
(* that is no selector makes querySelector throw a SyntaxError.            *)
(***************************************************************************)
AllIdent(toks) == Len(toks) > 0 /\ \A k \in DOMAIN toks : toks[k] \in IdentTokens

InvalidSelector == [ok |-> FALSE, kind |-> "none", name |-> <<>>, value |-> <<>>]

\* position of the first double quote at or after position from, 0 if none
FirstQuote(toks, from) ==
    LET qs == { k \in from..Len(toks) : toks[k] = "\"" }
    IN  IF qs = {} THEN 0 ELSE CHOOSE k \in qs : \A m \in qs : k <= m

\* the grammar of the three selector shapes the script uses:
\*   #ident     ident     .ident[ident="string"]
ParseSelector(sel) ==
    IF Len(sel) = 0 THEN InvalidSelector
    ELSE IF sel[1] = "#" THEN
        IF AllIdent(Tail(sel))
        THEN [ok |-> TRUE, kind |-> "id", name |-> Tail(sel), value |-> <<>>]
        ELSE InvalidSelector
    ELSE IF AllIdent(sel) THEN
        [ok |-> TRUE, kind |-> "type", name |-> sel, value |-> <<>>]
    ELSE IF /\ Len(sel) >= 8
            /\ sel[1] = "." /\ sel[2] \in IdentTokens /\ sel[3] = "["
            /\ sel[4] \in IdentTokens /\ sel[5] = "=" /\ sel[6] = "\"" THEN
        LET close == FirstQuote(sel, 7)
        IN  IF close # 0 /\ Len(sel) = close + 1 /\ sel[close + 1] = "]"
            THEN [ok |-> TRUE, kind |-> "classAttr", name |-> <<sel[2], sel[4]>>,
                  value |-> SubSeq(sel, 7, close - 1)]
            ELSE InvalidSelector
    ELSE InvalidSelector

MinOf(S) == CHOOSE k \in S : \A m \in S : k <= m

\* elements matching a parsed selector, as the indices of one collection
MatchingSections(p) ==
    IF p.kind = "id" THEN { i \in DOMAIN sections : sections[i] = Str(p.name) }
    ELSE IF p.kind = "type" /\ p.name = <<"section">> THEN DOMAIN sections
    ELSE {}

\* active matching done on the href instead of the data-target
MatchingLinksByHref(p) ==
    IF p.kind = "classAttr" /\ p.name = <<"nav-link", "data-target">>
    THEN { i \in DOMAIN navLinks : navLinks[i].href = Str(<<"#">> \o p.value) }
    ELSE {}

MatchingLinks(p) ==
    IF p.kind = "classAttr" /\ p.name = <<"nav-link", "data-target">>
    THEN { i \in DOMAIN navLinks : navLinks[i].target = Str(p.value) }
    ELSE {}

\* document.querySelector(sel): the first matching element, null, or a throw
QuerySelector(sel) ==
    LET p == ParseSelector(sel)
    IN  IF ~p.ok THEN [err |-> TRUE, el |-> NullEl]
        ELSE IF MatchingSections(p) # {}
             THEN [err |-> FALSE, el |-> [type |-> "section", idx |-> MinOf(MatchingSections(p))]]
        ELSE IF MatchingLinks(p) # {}
             THEN [err |-> FALSE, el |-> [type |-> "link", idx |-> MinOf(MatchingLinks(p))]]
        ELSE [err |-> FALSE, el |-> NullEl]

\* element.scrollIntoView({behavior: "smooth", block: "start"})
ScrollRequest(el) == [target |-> el, behavior |-> "smooth", block |-> "start"]

(***************************************************************************)
(* Active-link highlighting                                                *)
(***************************************************************************)
\* a clearing loop that removes nothing
RemoveNoActiveClasses(act) == act

RemoveAllActiveClasses(act) == { i \in act : i \notin DOMAIN navLinks }

\* `.nav-link[data-target="${sectionId}"]`
NavLinkSelector(sectionId) ==
    <<".", "nav-link", "[", "data-target", "=", "\"">> \o ToString(sectionId) \o <<"\"", "]">>

\* a differential toggle instead of a full reset
SetActiveLinkToggle(act, sectionId) ==
    LET activeLink == QuerySelector(NavLinkSelector(sectionId))
    IN  IF activeLink.err THEN [active |-> act, error |-> "SyntaxError"]
        ELSE IF activeLink.el # NullEl
             THEN [active |-> IF activeLink.el.idx \in act
                              THEN act \ {activeLink.el.idx}
                              ELSE RemoveAllActiveClasses(act) \cup {activeLink.el.idx},
                   error |-> "none"]
        ELSE [active |-> act, error |-> "none"]

\* a reset that runs before the lookup result is tested
SetActiveLinkClearFirst(act, sectionId) ==
    LET activeLink == QuerySelector(NavLinkSelector(sectionId))
    IN  IF activeLink.err THEN [active |-> act, error |-> "SyntaxError"]
        ELSE IF activeLink.el # NullEl
             THEN [active |-> RemoveAllActiveClasses(act) \cup {activeLink.el.idx},
                   error |-> "none"]
        ELSE [active |-> RemoveAllActiveClasses(act), error |-> "none"]

SetActiveLink(act, sectionId) ==
    LET activeLink == QuerySelector(NavLinkSelector(sectionId))
    IN  IF activeLink.err THEN [active |-> act, error |-> "SyntaxError"]
        ELSE IF activeLink.el # NullEl
             THEN [active |-> RemoveAllActiveClasses(act) \cup {activeLink.el.idx},
                   error |-> "none"]
        ELSE [active |-> act, error |-> "none"]

\* a callback that does not test isIntersecting
RECURSIVE ObserverCallbackEveryEntry(_, _)
ObserverCallbackEveryEntry(act, entries) ==
    IF entries = <<>> THEN [active |-> act, error |-> "none"]
    ELSE LET r == SetActiveLink(act, sections[Head(entries).target])
         IN  IF r.error # "none" THEN r
             ELSE ObserverCallbackEveryEntry(r.active, Tail(entries))

\* entries.forEach(...): a throw ends the loop and leaves the callback
RECURSIVE ObserverCallback(_, _)
ObserverCallback(act, entries) ==
    IF entries = <<>> THEN [active |-> act, error |-> "none"]
    ELSE IF Head(entries).isIntersecting
         THEN LET r == SetActiveLink(act, sections[Head(entries).target])
              IN  IF r.error # "none" THEN r
                  ELSE ObserverCallback(r.active, Tail(entries))
         ELSE ObserverCallback(act, Tail(entries))

\* a script that seeds no active link
InitialActiveNone(links) == {}

\* a script that seeds the last nav link
InitialActiveLast(links) == IF Len(links) > 0 THEN {Len(links)} ELSE {}

\* the first nav link is marked active when the script runs
InitialActive(links) == IF Len(links) > 0 THEN {1} ELSE {}

(***************************************************************************)
(* What the browser delivers to the observer callback.  The first batch    *)
(* reports every observed section once; a later batch reports a sequence   *)
(* of changes, each entry flipping one section's intersection state.       *)
(***************************************************************************)
RECURSIVE ChangeEntries(_, _)
ChangeEntries(band, targets) ==
    IF targets = <<>> THEN <<>>
    ELSE LET s == Head(targets)
             nowIn == s \notin band
             band2 == IF nowIn THEN band \cup {s} ELSE band \ {s}
         IN  <<[target |-> s, isIntersecting |-> nowIn]>> \o ChangeEntries(band2, Tail(targets))

RECURSIVE BandAfter(_, _)
BandAfter(band, entries) ==
    IF entries = <<>> THEN band
    ELSE BandAfter(IF Head(entries).isIntersecting
                   THEN band \cup {Head(entries).target}
                   ELSE band \ {Head(entries).target}, Tail(entries))

InitialEntries(band, targets) ==
    [k \in DOMAIN targets |-> [target |-> targets[k], isIntersecting |-> targets[k] \in band]]

Permutations(S) ==
    { f \in [1..Cardinality(S) -> S] : \A i, j \in 1..Cardinality(S) : i # j => f[i] # f[j] }

Batches ==
    IF ~notified
    THEN { InitialEntries(inBand, t) : t \in Permutations(DOMAIN sections) }
    ELSE { ChangeEntries(inBand, t) : t \in SeqsUpTo(DOMAIN sections, MaxBatch) \ {<<>>} }

NoEvent == [kind |-> "load", link |-> 0, entries |-> <<>>]

\* the handlers take intersection states as the browser reports them; the
\* geometry behind a report is followed only in GeomSpec
NoRect == [observed |-> FALSE, top |-> 0, bottom |-> 0, isIntersecting |-> FALSE]

(***************************************************************************)
(* State after the script has run                                          *)
(***************************************************************************)
Init ==
    /\ sections \in { s \in SeqsUpTo(SectionIdValues, MaxSections) : UniqueIds(s) }
    /\ navLinks \in SeqsUpTo(LinkShapes, MaxLinks)
    /\ logo \in LogoValues
    /\ active = InitialActive(navLinks)
    /\ inBand \in SUBSET (DOMAIN sections)
    /\ notified = FALSE
    /\ event = NoEvent
    /\ scrolls = <<>>
    /\ defaultPrevented = FALSE
    /\ error = IF logo = NullEl THEN "TypeError" ELSE "none"
    /\ rect = NoRect

(***************************************************************************)
(* Handlers                                                                *)
(***************************************************************************)
\* a click handler that also marks the clicked link active
NavLinkClickMarksActive(i) ==
    LET targetId == navLinks[i].href
        targetSection == QuerySelector(ToString(targetId))
    IN  /\ event' = [kind |-> "click", link |-> i, entries |-> <<>>]
        /\ defaultPrevented' = TRUE
        /\ IF targetSection.err
           THEN scrolls' = <<>> /\ error' = "SyntaxError"
           ELSE /\ error' = "none"
                /\ scrolls' = IF targetSection.el # NullEl
                              THEN <<ScrollRequest(targetSection.el)>>
                              ELSE <<>>
        /\ active' = RemoveAllActiveClasses(active) \cup {i}
        /\ UNCHANGED <<page, inBand, notified, rect>>

\* click on navLinks[i]
NavLinkClick(i) ==
    LET targetId == navLinks[i].href
        targetSection == QuerySelector(ToString(targetId))
    IN  /\ event' = [kind |-> "click", link |-> i, entries |-> <<>>]
        /\ defaultPrevented' = TRUE
        /\ IF targetSection.err
           THEN scrolls' = <<>> /\ error' = "SyntaxError"
           ELSE /\ error' = "none"
                /\ scrolls' = IF targetSection.el # NullEl
                              THEN <<ScrollRequest(targetSection.el)>>
                              ELSE <<>>
        /\ UNCHANGED <<page, active, inBand, notified, rect>>

\* a logo handler that follows the logo's own href, as the nav links do
LogoClickFollowsHref ==
    LET own == QuerySelector(ToString(logo.href))
    IN  /\ logo # NullEl
        /\ event' = [kind |-> "logo", link |-> 0, entries |-> <<>>]
        /\ defaultPrevented' = TRUE
        /\ IF own.err THEN scrolls' = <<>> /\ error' = "SyntaxError"
           ELSE IF own.el = NullEl THEN scrolls' = <<>> /\ error' = "TypeError"
           ELSE scrolls' = <<ScrollRequest(own.el)>> /\ error' = "none"
        /\ UNCHANGED <<page, active, inBand, notified, rect>>

\* click on the logo; the listener exists only if the logo was found
LogoClick ==
    LET home == QuerySelector(<<"#", "home">>)
    IN  /\ logo # NullEl
        /\ event' = [kind |-> "logo", link |-> 0, entries |-> <<>>]
        /\ defaultPrevented' = TRUE
        /\ IF home.el = NullEl
           THEN scrolls' = <<>> /\ error' = "TypeError"
           ELSE scrolls' = <<ScrollRequest(home.el)>> /\ error' = "none"
        /\ UNCHANGED <<page, active, inBand, notified, rect>>

\* the IntersectionObserver callback, run on one batch of entries
Notify(entries) ==
    LET r == ObserverCallback(active, entries)
    IN  /\ event' = [kind |-> "notify", link |-> 0, entries |-> entries]
        /\ active' = r.active
        /\ error' = r.error
        /\ inBand' = BandAfter(inBand, entries)
        /\ notified' = TRUE
        /\ scrolls' = <<>>
        /\ defaultPrevented' = FALSE
        /\ UNCHANGED <<page, rect>>

Next ==
    \/ \E i \in DOMAIN navLinks : NavLinkClick(i)
    \/ LogoClick
    \/ \E entries \in Batches : entries # <<>> /\ Notify(entries)

Spec == Init /\ [][Next]_vars

TypeOK ==
    /\ active \subseteq DOMAIN navLinks
    /\ inBand \subseteq DOMAIN sections
    /\ notified \in BOOLEAN
    /\ error \in {"none", "SyntaxError", "TypeError"}

(***************************************************************************)
(* Vocabulary of the properties                                            *)
(***************************************************************************)
\* the data-target of nav link i is the identifier of section s
LinkTargetsSection(i, s) == sections[s].t = "str" /\ navLinks[i].target = sections[s]

\* the href of nav link i is the fragment reference #id of section s
HrefRefersTo(i, s) ==
    /\ sections[s].t = "str"
    /\ navLinks[i].href.t = "str"
    /\ navLinks[i].href.s = <<"#">> \o sections[s].s

\* positions of the entries of a batch that report "now inside the band"
Entering(entries) == { k \in DOMAIN entries : entries[k].isIntersecting }

HasLinkFor(s) == \E i \in DOMAIN navLinks : LinkTargetsSection(i, s)

\* the page the script was written for: a logo, sections with plain
\* identifiers, and every nav link referring to and targeting one section
WellFormedPage ==
    /\ logo # NullEl
    /\ \A s \in DOMAIN sections : sections[s] \in {Str(<<"home">>), Str(<<"about">>)}
    /\ \A i \in DOMAIN navLinks :
          \E s \in DOMAIN sections : LinkTargetsSection(i, s) /\ HrefRefersTo(i, s)

\* C1: at most one nav link carries the active marker, in every reachable state.
C1_AtMostOneActive == Cardinality(active) <= 1

\* C1 witness: two links share a target, a section with that identifier has
\* entered the band, and still only one of the two links is active.
C1_Witness ==
    /\ event.kind = "notify"
    /\ \E k \in Entering(event.entries) : \E i, j \in DOMAIN navLinks :
           /\ i # j
           /\ LinkTargetsSection(i, event.entries[k].target)
           /\ LinkTargetsSection(j, event.entries[k].target)
    /\ Cardinality(active) = 1

\* C2: after a notification whose one entering entry is a section S that some
\* nav link targets, a nav link targeting S is the only active link.
C2_EnteredSectionLinkIsActive ==
    (event.kind = "notify" /\ Cardinality(Entering(event.entries)) = 1) =>
        \A k \in Entering(event.entries) :
            LET s == event.entries[k].target
            IN  HasLinkFor(s) =>
                    \E i \in DOMAIN navLinks : LinkTargetsSection(i, s) /\ active = {i}

\* C3: a click on a nav link whose href refers to an existing section S prevents
\* the default action and issues exactly one scroll request, to S, aligned to the top.
C3_ClickScrollsToSection ==
    event.kind = "click" =>
        \A s \in DOMAIN sections :
            HrefRefersTo(event.link, s) =>
                /\ defaultPrevented
                /\ scrolls = <<[target |-> [type |-> "section", idx |-> s],
                                behavior |-> "smooth", block |-> "start"]>>

\* C4: a click on a nav link whose href refers to no section issues no scroll
\* request and raises no error.
C4_UnresolvedClickIsSilent ==
    (event.kind = "click" /\ ~\E s \in DOMAIN sections : HrefRefersTo(event.link, s)) =>
        scrolls = <<>> /\ error = "none"

\* C5: on any page, neither the script nor any later handler throws.
C5_NoError == error = "none"

\* C6: a click on the logo, on a page that has a section identified as home,
\* prevents the default action and issues exactly one smooth, top-aligned scroll
\* request to that section, whatever href the logo carries.
C6_LogoScrollsHome ==
    event.kind = "logo" =>
        \A s \in DOMAIN sections :
            sections[s] = Str(<<"home">>) =>
                /\ defaultPrevented
                /\ error = "none"
                /\ scrolls = <<[target |-> [type |-> "section", idx |-> s],
                                behavior |-> "smooth", block |-> "start"]>>

\* C6 witness: the logo carries a reference to another section, events have
\* preceded the click, and the one request goes to home.
C6_Witness ==
    /\ event.kind = "logo"
    /\ logo.href = Str(<<"#", "about">>)
    /\ notified
    /\ \E s \in DOMAIN sections : sections[s] = Str(<<"about">>)
    /\ Len(scrolls) = 1
    /\ sections[scrolls[1].target.idx] = Str(<<"home">>)

C8_UnmatchedEntryChangesNothing ==
    [][(/\ event'.kind = "notify"
        /\ Entering(event'.entries) # {}
        /\ \A k \in Entering(event'.entries) : ~HasLinkFor(event'.entries[k].target))
       => active' = active]_vars

\* C9 as stated: no link is active before the first notification, exactly one after.
C9_ZeroBeforeOneAfter == Cardinality(active) = IF notified THEN 1 ELSE 0

\* C9 amended: before and after the first notification alike, exactly one link
\* is active when the page has nav links, and none when it has no nav link.
C9_OneIffLinksExist ==
    /\ ~notified => Cardinality(active) = IF Len(navLinks) > 0 THEN 1 ELSE 0
    /\ notified => Cardinality(active) = IF Len(navLinks) > 0 THEN 1 ELSE 0

\* C9 witness: a notification has moved the marker away from the seeded first link.
C9_Witness == notified /\ Cardinality(active) = 1 /\ active # {1} /\ Len(navLinks) > 1

\* C10: on a well-formed page, once the observer has reported, whenever one
\* section occupies the band and some nav link targets it, a nav link targeting
\* it is the only active link.
C10_ActiveLinkFollowsBand ==
    (WellFormedPage /\ notified) =>
        \A s \in DOMAIN sections :
            (inBand = {s} /\ HasLinkFor(s)) =>
                \E i \in DOMAIN navLinks : LinkTargetsSection(i, s) /\ active = {i}

\* the sections a batch reports as "now inside the band"
EnteredSections(entries) == { entries[k].target : k \in Entering(entries) }

\* two notifications in a row, each with section s as its only entering section
SameSectionEntersAgain ==
    /\ event.kind = "notify"
    /\ event'.kind = "notify"
    /\ \E s \in DOMAIN sections :
           EnteredSections(event.entries) = {s} /\ EnteredSections(event'.entries) = {s}

\* C11 as stated: when the same section enters twice in a row, the second
\* processing leaves the active flags as the first left them, and exactly one
\* nav link is active.
C11_ReentryIdempotentOneActive ==
    [][SameSectionEntersAgain => (active' = active /\ Cardinality(active') = 1)]_vars

\* C11 amended: when the same section enters twice in a row, the second
\* processing leaves the active flags as the first left them; exactly one nav
\* link is active if the page has nav links, none if it has no nav link.
C11_ReentryIdempotent ==
    [][SameSectionEntersAgain =>
          /\ active' = active
          /\ Cardinality(active') = IF Len(navLinks) > 0 THEN 1 ELSE 0]_vars

\* C11 witness: a section that was inside the band has left and entered again
\* in one batch, nothing else is inside, and its link (not the seeded one) is
\* the active one.
C11_Witness ==
    /\ event.kind = "notify"
    /\ Len(event.entries) = 2
    /\ event.entries[1].target = event.entries[2].target
    /\ ~event.entries[1].isIntersecting
    /\ event.entries[2].isIntersecting
    /\ inBand = {event.entries[2].target}
    /\ \E i \in DOMAIN navLinks :
           i # 1 /\ LinkTargetsSection(i, event.entries[2].target) /\ active = {i}

\* C12: right after the script has run, the first nav link is active and no
\* other is, whatever section is in the band; with no nav link nothing is marked.
C12_SeedIsFirstLink ==
    event.kind = "load" =>
        /\ Len(navLinks) > 0 => active = {1}
        /\ Len(navLinks) = 0 => active = {}

\* C12 witness: the page has loaded with only the second section in the band
\* and a second link targeting it, and the first link is the active one.
C12_Witness ==
    /\ event.kind = "load"
    /\ Len(navLinks) = 2
    /\ inBand = {2}
    /\ LinkTargetsSection(2, 2)
    /\ ~LinkTargetsSection(1, 2)
    /\ active = {1}

\* C16: a click on a nav link or on the logo changes no nav link's active flag,
\* whether or not it results in a scroll.
C16_ClicksKeepActive ==
    [][event'.kind \in {"click", "logo"} => active' = active]_vars

\* C16 witness: a click on a link has issued a scroll while another link is the
\* active one.
C16_Witness ==
    /\ event.kind = "click"
    /\ Len(scrolls) = 1
    /\ notified
    /\ Cardinality(active) = 1
    /\ event.link \notin active

Independent(i, a, b) == a # b /\ HrefRefersTo(i, a) /\ LinkTargetsSection(i, b)

\* no nav link before i carries the data-target of i
FirstWithItsTarget(i) == \A j \in DOMAIN navLinks : j < i => navLinks[j].target # navLinks[i].target

SectionEl(s) == [type |-> "section", idx |-> s]

MatchedEntering(entries) == { k \in Entering(entries) : HasLinkFor(entries[k].target) }

MaxOf(S) == CHOOSE k \in S : \A m \in S : m <= k

\* C15: after a batch with several entering entries, all for sections that
\* carry an identifier, the one active link is the link targeting the section
\* of the last entering entry that has a link, in batch order.
C15_LastEnteringWins ==
    (/\ event.kind = "notify"
     /\ Cardinality(Entering(event.entries)) >= 2
     /\ \A s \in EnteredSections(event.entries) : sections[s] # Null
     /\ MatchedEntering(event.entries) # {}) =>
        LET s == event.entries[MaxOf(MatchedEntering(event.entries))].target
        IN  \E i \in DOMAIN navLinks : LinkTargetsSection(i, s) /\ active = {i}

(***************************************************************************)
(* Geometry of the observer.  Lengths are percentages of the viewport      *)
(* height, measured from the top of the viewport (root: null).             *)
(***************************************************************************)
\* rootMargin: "-70% 0px -70% 0px": the root rectangle is moved in by 70%
\* from the top and by 70% from the bottom
RootInsetTopPct == 70

RootInsetBottomPct == 70

\* threshold: 0
Threshold == 0

RootTop == RootInsetTopPct

RootBottom == 100 - RootInsetBottomPct

Max2(a, b) == IF a >= b THEN a ELSE b

Min2(a, b) == IF a <= b THEN a ELSE b

\* length of the overlap of [top, bottom] with [lo, hi]
Overlap(top, bottom, lo, hi) ==
    IF Min2(bottom, hi) > Max2(top, lo) THEN Min2(bottom, hi) - Max2(top, lo) ELSE 0

\* isIntersecting for a rectangle [lo, hi] of non-negative height: the target
\* intersects it or is edge-adjacent, and the visible ratio reaches the threshold
IntersectsRoot(top, bottom, lo, hi) ==
    /\ Max2(top, lo) <= Min2(bottom, hi)
    /\ 100 * Overlap(top, bottom, lo, hi) >= Threshold * (bottom - top)

\* the verdicts a browser can give.  Insets that sum to more than 100% leave
\* a root rectangle of negative height: it is either treated as empty or
\* clamped to height zero at its top edge.
Verdicts(top, bottom) ==
    IF RootBottom >= RootTop
    THEN {IntersectsRoot(top, bottom, RootTop, RootBottom)}
    ELSE {FALSE, IntersectsRoot(top, bottom, RootTop, RootTop)}

Observations(top, bottom) ==
    { [observed |-> TRUE, top |-> top, bottom |-> bottom, isIntersecting |-> v] :
        v \in Verdicts(top, bottom) }

\* positions and heights of the observed section, in tenths of the viewport
MaxTenths == 10

GeomInit ==
    /\ sections = <<Str(<<"home">>)>>
    /\ navLinks = <<>>
    /\ logo = [type |-> "logo", idx |-> 0, href |-> Null]
    /\ active = InitialActive(navLinks)
    /\ inBand = {}
    /\ notified = FALSE
    /\ event = NoEvent
    /\ scrolls = <<>>
    /\ defaultPrevented = FALSE
    /\ error = "none"
    /\ \E t \in 0..(2 * MaxTenths) : \E h \in 1..MaxTenths :
           rect \in Observations(10 * t - 10 * MaxTenths, 10 * t - 10 * MaxTenths + 10 * h)

\* the page scrolls by a tenth of the viewport and the observer looks again
GeomScroll(d) ==
    /\ rect.top + d >= 0 - 10 * MaxTenths
    /\ rect.top + d <= 10 * MaxTenths
    /\ rect' \in Observations(rect.top + d, rect.bottom + d)
    /\ UNCHANGED <<page, active, inBand, notified, event, scrolls, defaultPrevented, error>>

GeomNext ==
    \/ GeomScroll(10)
    \/ GeomScroll(0 - 10)

GeomSpec == GeomInit /\ [][GeomNext]_vars

\* C13: a section that overlaps the central band from 30% to 70% of the
\* viewport height is reported as inside the band, and a section reported as
\* inside reaches that band (edge contact counted as reaching).
C13_ReportedIffInCentralBand ==
    rect.observed =>
        /\ Overlap(rect.top, rect.bottom, 30, 70) > 0 => rect.isIntersecting
        /\ rect.isIntersecting => Max2(rect.top, 30) <= Min2(rect.bottom, 70)

====
